---- MODULE Spec2Model ----
(***************************************************************************)
(* Room-photo analysis relay of cleaning-cards: the three server variants  *)
(* (src/worker/index.ts, the node server src/unnamed/part_002 and the      *)
(* dual-mode worker src/unnamed/part_003), their Model Gateway             *)
(* (callOpenRouter, callOpenRouterWithRetry, callOpenRouterFixJson) and    *)
(* their Response Normalizer (parseJsonSafe, extractJsonObject,            *)
(* parseJsonWithRecovery, the normalized result).                          *)
(*                                                                         *)
(* A text is a sequence of tokens.  Each token stands for the exact piece  *)
(* of text its name shows; only the tokens "{" and "}" contain a brace, so *)
(* indexOf('{') and lastIndexOf('}') on the text are the same positions on *)
(* the token sequence.                                                     *)
(***************************************************************************)
EXTENDS Integers, Sequences, FiniteSets, TLC, Bags

(* ---------------------------------------------------------------------- *)
(* JSON texts and values                                                  *)
(* ---------------------------------------------------------------------- *)

kCards == "\"cards\""
kInstruction == "\"instruction\""
kCompleted == "\"completed\""
kRemaining == "\"remaining\""
kNewTasks == "\"newTasks\""
kFeedback == "\"feedback\""
kExtra == "\"extra\""
sWipe == "\"wipe the table\""
sFold == "\"fold the towel\""
sNice == "\"nice\""
sEmpty == "\"\""

\* the JSON string literals of the model's texts
StringTokens ==
  {kCards, kInstruction, kCompleted, kRemaining, kNewTasks, kFeedback, kExtra,
   sWipe, sFold, sNice, sEmpty}

\* the JSON number literals of the model's texts
NumberTokens == {"0", "7"}

\* JavaScript values: undefined, null, number, string, array, object.
\* An object is the sequence of its <<key, value>> members in insertion order.
Undefined == [t |-> "undefined"]
JNull == [t |-> "null"]
JTrue == [t |-> "true"]
JNum(tok) == [t |-> "num", n |-> tok]
JStr(tok) == [t |-> "str", s |-> tok]
JArr(elems) == [t |-> "arr", e |-> elems]
JObj(members) == [t |-> "obj", m |-> members]

\* o[k] = v on a members sequence: a repeated key keeps its place, last value wins
PutMember(members, k, v) ==
  IF \E i \in 1..Len(members) : members[i][1] = k
  THEN [i \in 1..Len(members) |->
          IF members[i][1] = k THEN <<k, v>> ELSE members[i]]
  ELSE Append(members, <<k, v>>)

\* value.key of JavaScript for a non-nullish value: undefined unless value is
\* an object that has the key
GetMember(value, k) ==
  IF value.t = "obj" /\ \E i \in 1..Len(value.m) : value.m[i][1] = k
  THEN value.m[CHOOSE i \in 1..Len(value.m) : value.m[i][1] = k][2]
  ELSE Undefined

HasMember(value, k) ==
  value.t = "obj" /\ \E i \in 1..Len(value.m) : value.m[i][1] = k

ParseFail == [ok |-> FALSE, v |-> Undefined, next |-> 0]

RECURSIVE ParseValue(_, _)
RECURSIVE ParseMembers(_, _, _)
RECURSIVE ParseElements(_, _, _)

\* JSON.parse, the value starting at token i of toks (1-based): the value and
\* the position after it, or a failure
ParseValue(toks, i) ==
  IF i > Len(toks) THEN ParseFail
  ELSE LET tk == toks[i] IN
    CASE tk = "null" -> [ok |-> TRUE, v |-> JNull, next |-> i + 1]
      [] tk = "true" -> [ok |-> TRUE, v |-> JTrue, next |-> i + 1]
      [] tk \in NumberTokens -> [ok |-> TRUE, v |-> JNum(tk), next |-> i + 1]
      [] tk \in StringTokens -> [ok |-> TRUE, v |-> JStr(tk), next |-> i + 1]
      [] tk = "{" ->
           IF i + 1 <= Len(toks) /\ toks[i + 1] = "}"
           THEN [ok |-> TRUE, v |-> JObj(<<>>), next |-> i + 2]
           ELSE ParseMembers(toks, i + 1, <<>>)
      [] tk = "[" ->
           IF i + 1 <= Len(toks) /\ toks[i + 1] = "]"
           THEN [ok |-> TRUE, v |-> JArr(<<>>), next |-> i + 2]
           ELSE ParseElements(toks, i + 1, <<>>)
      [] OTHER -> ParseFail

\* the members of an object from token i on, after "{" or ","
ParseMembers(toks, i, acc) ==
  IF i + 1 > Len(toks) \/ toks[i] \notin StringTokens \/ toks[i + 1] # ":"
  THEN ParseFail
  ELSE LET r == ParseValue(toks, i + 2) IN
    IF ~r.ok \/ r.next > Len(toks) THEN ParseFail
    ELSE LET acc2 == PutMember(acc, toks[i], r.v) IN
      CASE toks[r.next] = "}" -> [ok |-> TRUE, v |-> JObj(acc2), next |-> r.next + 1]
        [] toks[r.next] = "," -> ParseMembers(toks, r.next + 1, acc2)
        [] OTHER -> ParseFail

\* the elements of an array from token i on, after "[" or ","
ParseElements(toks, i, acc) ==
  LET r == ParseValue(toks, i) IN
    IF ~r.ok \/ r.next > Len(toks) THEN ParseFail
    ELSE LET acc2 == Append(acc, r.v) IN
      CASE toks[r.next] = "]" -> [ok |-> TRUE, v |-> JArr(acc2), next |-> r.next + 1]
        [] toks[r.next] = "," -> ParseElements(toks, r.next + 1, acc2)
        [] OTHER -> ParseFail

\* the SyntaxError JSON.parse throws on a text; it names the text it was
\* thrown for, so two failures on different texts are different errors
SyntaxErrorOf(text) == [name |-> "SyntaxError", text |-> text]

\* parseJsonSafe: { ok: true, value } or { ok: false, error }
parseJsonSafe(text) ==
  LET r == ParseValue(text, 1) IN
    IF r.ok /\ r.next = Len(text) + 1
    THEN [ok |-> TRUE, value |-> r.v]
    ELSE [ok |-> FALSE, error |-> SyntaxErrorOf(text)]

\* text.indexOf(ch): 0-based position of the first ch, -1 when there is none
indexOf(text, ch) ==
  IF \E i \in 1..Len(text) : text[i] = ch
  THEN (CHOOSE i \in 1..Len(text) :
          text[i] = ch /\ \A j \in 1..(i - 1) : text[j] # ch) - 1
  ELSE -1

\* text.lastIndexOf(ch): 0-based position of the last ch, -1 when there is none
lastIndexOf(text, ch) ==
  IF \E i \in 1..Len(text) : text[i] = ch
  THEN (CHOOSE i \in 1..Len(text) :
          text[i] = ch /\ \A j \in (i + 1)..Len(text) : text[j] # ch) - 1
  ELSE -1

\* text.slice(from, to) with 0-based from (inclusive) and to (exclusive)
slice(text, from, to) == SubSeq(text, from + 1, to)

\* what extractJsonObject returns for "no object": null, which `!extracted`
\* treats like the empty text
NullText == <<>>

\* an extraction that stops at the first "}"
extractToFirstClose(text) ==
  LET first == indexOf(text, "{")
      last == indexOf(text, "}")
  IN IF first = -1 \/ last = -1 \/ last <= first
     THEN NullText
     ELSE slice(text, first, last + 1)

\* extractJsonObject: the text from the first "{" to the last "}", or null
extractJsonObject(text) ==
  LET first == indexOf(text, "{")
      last == lastIndexOf(text, "}")
  IN IF first = -1 \/ last = -1 \/ last <= first
     THEN NullText
     ELSE slice(text, first, last + 1)

\* a recovery that parses the extraction without testing it for null
parseJsonAlwaysExtract(text) ==
  IF parseJsonSafe(text).ok THEN parseJsonSafe(text)
  ELSE parseJsonSafe(extractJsonObject(text))

\* a recovery that never extracts
parseJsonDirectOnly(text) == parseJsonSafe(text)

\* parseJsonWithRecovery: direct parse, else parse of the extracted object,
\* else the direct parse's failure
parseJsonWithRecovery(text) ==
  LET direct == parseJsonSafe(text)
      extracted == extractJsonObject(text)
  IN IF direct.ok THEN direct
     ELSE IF extracted = NullText THEN direct
     ELSE parseJsonSafe(extracted)

(* ---------------------------------------------------------------------- *)
(* The texts the model provider and the client can send                   *)
(* ---------------------------------------------------------------------- *)

cardWipe == <<"{", kInstruction, ":", sWipe, "}">>
cardFold == <<"{", kInstruction, ":", sFold, "}">>
cardWipeExtra == <<"{", kInstruction, ":", sWipe, ",", kExtra, ":", "7", "}">>

tOneCard == <<"{", kCards, ":", "[">> \o cardWipe \o <<"]", "}">>
tTwoCardsExtra ==
  <<"{", kCards, ":", "[">> \o cardWipeExtra \o <<",">> \o cardFold
    \o <<"]", ",", kExtra, ":", sNice, "}">>
tFenced == <<"Sure", "{", kCards, ":", "[">> \o cardFold \o <<"]", "}", "Done">>
tFencedEmpty == <<"Sure", "{", kCards, ":", "[", "]", "}", "Done">>
tGarbled == <<"Sure", "{", "garbled">>
tProse == <<"Sure">>
tCloseBeforeOpen == <<"}", "Sure", "{">>
tBracedProse == <<"Sure", "{", sNice, "}", "Done">>
tEmptyObject == <<"{", "}">>
tNull == <<"null">>
tNumber == <<"7">>
tTopArray == <<"[">> \o cardWipe \o <<"]">>
tCardsNull == <<"{", kCards, ":", "null", "}">>
tCardsNumber == <<"{", kCards, ":", "7", "}">>
tCardNull == <<"{", kCards, ":", "[", "null", "]", "}">>
tCardNoInstruction == <<"{", kCards, ":", "[", "{", "}", "]", "}">>
tCardEmptyInstruction ==
  <<"{", kCards, ":", "[", "{", kInstruction, ":", sEmpty, "}", "]", "}">>
tCardNumberInstruction ==
  <<"{", kCards, ":", "[", "{", kInstruction, ":", "7", "}", "]", "}">>
tFollowupFull ==
  <<"{", kCompleted, ":", "[">> \o cardWipe \o <<"]", ",", kRemaining, ":", "[", "]", ",",
    kNewTasks, ":", "[">> \o cardFold \o <<"]", ",", kFeedback, ":", sNice, "}">>
tFollowupPartial == <<"{", kCompleted, ":", "[">> \o cardWipeExtra \o <<"]", "}">>
tFollowupOdd ==
  <<"Sure", "{", kCompleted, ":", "null", ",", kRemaining, ":", "7", ",",
    kFeedback, ":", "7", "}">>

\* message.content of a 2xx completion: any non-empty text
ModelTexts ==
  {tOneCard, tTwoCardsExtra, tFenced, tFencedEmpty, tGarbled, tProse,
   tCloseBeforeOpen, tBracedProse, tEmptyObject, tNull, tNumber, tTopArray,
   tCardsNull, tCardsNumber, tCardNull, tCardNoInstruction,
   tCardEmptyInstruction, tCardNumberInstruction,
   tFollowupFull, tFollowupPartial, tFollowupOdd}

\* the previousCards form field: absent or empty (NullText), or a text
PreviousCardsTexts ==
  {NullText, <<"[">> \o cardWipe \o <<",">> \o cardFold \o <<"]">>, <<"[", "]">>,
   tProse, tNull, tEmptyObject, <<"[", "null", "]">>, <<"[", "7", "]">>}

(* ---------------------------------------------------------------------- *)
(* Errors and responses                                                   *)
(* ---------------------------------------------------------------------- *)

\* a thrown Error object; `at` is the callOpenRouter invocation (1, 2, 3) that
\* created it, so the errors of two attempts are never the same object
Err(name, message, at) == [name |-> name, message |-> message, at |-> at]

NoError == [name |-> "none", message |-> "", at |-> 0]

ApiKeyError(at) == Err("Error", "OPENROUTER_API_KEY is not set", at)

MissingContentError(at) == Err("Error", "OpenRouter response missing content", at)

\* what an outbound fetch ends with when it does not yield content: a non-2xx
\* status, a 2xx body without content, or a rejected fetch
UpstreamFailures == {"http429", "http503", "missing", "network"}

\* the error callOpenRouter / callOpenRouterFixJson throws for such an outcome
UpstreamError(kind, at) ==
  CASE kind = "http429" -> Err("Error", "OpenRouter error 429", at)
    [] kind = "http503" -> Err("Error", "OpenRouter error 503", at)
    [] kind = "missing" -> MissingContentError(at)
    [] OTHER -> Err("TypeError", "fetch failed", at)

NoResponse == [status |-> 0, body |-> [none |-> TRUE]]

\* c.json(body, status)
JsonResponse(status, body) == [status |-> status, body |-> body]

\* what the framework answers when the handler itself throws (the node server
\* has no try/catch around its model calls): Hono's default error handler
UnhandledResponse == [status |-> 500, body |-> [text |-> "Internal Server Error"]]

(* ---------------------------------------------------------------------- *)
(* Normalization                                                          *)
(* ---------------------------------------------------------------------- *)

IsNullish(value) == value.t \in {"undefined", "null"}

\* a `??` that lost its fallback
CoalesceNone(value, fallback) == value

\* value ?? fallback
Coalesce(value, fallback) == IF IsNullish(value) THEN fallback ELSE value

\* ({ instruction: card.instruction }) as c.json writes it: JSON.stringify
\* leaves out a member whose value is undefined
cardOf(card) ==
  LET i == GetMember(card, kInstruction) IN
    IF i = Undefined THEN JObj(<<>>) ELSE JObj(<< <<kInstruction, i>> >>)

\* (parsed.value.cards ?? []).map((card) => ({ instruction: card.instruction }))
\* either the cards, or the TypeError the expression throws
normalizeCards(value) ==
  IF value.t = "null"
  THEN [threw |-> TRUE, error |-> Err("TypeError", "Cannot read properties of null", 0)]
  ELSE LET cards == Coalesce(GetMember(value, kCards), JArr(<<>>)) IN
    IF cards.t # "arr"
    THEN [threw |-> TRUE, error |-> Err("TypeError", "map is not a function", 0)]
    ELSE IF \E i \in 1..Len(cards.e) : IsNullish(cards.e[i])
    THEN [threw |-> TRUE, error |-> Err("TypeError", "Cannot read properties of null", 0)]
    ELSE [threw |-> FALSE,
          cards |-> JArr([i \in 1..Len(cards.e) |-> cardOf(cards.e[i])])]

\* the followup result: completed / remaining / newTasks ?? [], feedback ?? ''
normalizeFollowup(value) ==
  IF value.t = "null"
  THEN [threw |-> TRUE, error |-> Err("TypeError", "Cannot read properties of null", 0)]
  ELSE [threw |-> FALSE,
        completed |-> Coalesce(GetMember(value, kCompleted), JArr(<<>>)),
        remaining |-> Coalesce(GetMember(value, kRemaining), JArr(<<>>)),
        newTasks |-> Coalesce(GetMember(value, kNewTasks), JArr(<<>>)),
        feedback |-> Coalesce(GetMember(value, kFeedback), JStr(sEmpty))]

\* previousCards.length and buildFollowupMessages' previousCards.map(...) on
\* the parsed previousCards: TRUE when they throw a TypeError
previousCardsThrows(value) ==
  \/ value.t = "null"
  \/ value.t # "arr"
  \/ \E i \in 1..Len(value.e) : IsNullish(value.e[i])

(* ---------------------------------------------------------------------- *)
(* State                                                                  *)
(* ---------------------------------------------------------------------- *)

VARIABLES
  variant,        \* which server runs: "worker", "node" or "dual"
  apiKey,         \* whether OPENROUTER_API_KEY is set in the environment
  pc,             \* where the request handler is suspended
  mode,           \* the request's mode (the dual-mode server reads body.mode)
  image,          \* the format of the bytes in base64Image
  decoders,       \* the HEIC decoders the handler has run, in order
  attempt,        \* callOpenRouterWithRetry's attempt
  lastError,      \* callOpenRouterWithRetry's lastError
  thrown,         \* the error callOpenRouterWithRetry threw to the handler
  exception,      \* the error that was thrown out of the handler's own code
  errs,           \* the errors of the failed attempts, in order
  calls,          \* callOpenRouter invocations of this request
  fetches,        \* generation fetches sent to the provider
  repairFetches,  \* repair fetches sent to the provider
  inflight,       \* provider fetches sent and not yet settled
  sent,           \* the image formats sent to the provider, one per fetch
  waits,          \* the sleep(backoffMs) calls, in order
  waitedMs,       \* the total time of the sleeps that have elapsed
  raw,            \* the generation call's text
  fixed,          \* the repair call's text
  parsed,         \* the handler's parsed
  response,       \* the HTTP response of the request
  parseInput,     \* a text given to parseJsonWithRecovery: prefix, body, suffix
  parseOutput,    \* what parseJsonWithRecovery returned for it
  platform,       \* CameraGuide: Platform.OS, "native" or "web"
  cameraReady,    \* CameraGuide: cameraRef.current is set
  stage,          \* CameraGuide: the await its capture or pick is suspended at
  isProcessing,   \* CameraGuide: isProcessing
  showTips,       \* CameraGuide: showTips
  errorMessage,   \* CameraGuide: errorMessage
  photo,          \* CameraGuide: the size of the image of the capture in progress
  upload,         \* CameraGuide: the size of the image it posted to the server
  reply,          \* CameraGuide: the server's response to the upload
  completed,      \* CameraGuide: the payload given to onAnalysisComplete
  closure,        \* CameraGuide: reviewMode as the handler in progress captured it
  form,           \* CameraGuide: the field names of the multipart body sent
  orphans,        \* captures still in progress whose CameraGuide is unmounted
  appState,       \* HomeScreen: appState
  roomImage,      \* HomeScreen: roomImage, "default" or "photo"
  cards,          \* HomeScreen: cards, the instructions in order
  reviewMode,     \* HomeScreen: reviewMode
  finalCheckMessage, \* HomeScreen: finalCheckMessage is set
  isSignedIn,     \* HomeScreen: Boolean(user)
  authPromptVisible, \* HomeScreen: authPromptVisible
  currentIndex,   \* CardDeck: currentIndex
  showConfetti,   \* CardDeck: showConfetti
  showUpgrade,    \* CardDeck: showUpgrade
  isComplete,     \* CardDeck: isComplete
  isPremium,      \* CardDeck: isPremium
  completedCards, \* CardDeck: completedCards.length
  swiped,         \* CardDeck: the card on top has been swiped away
  timers          \* the setTimeout callbacks of card decks not yet run, a bag

\* the server's state
serverVars ==
  <<variant, apiKey, pc, mode, image, decoders, attempt, lastError, thrown, exception,
    errs, calls, fetches, repairFetches, inflight, sent, waits, waitedMs, raw, fixed,
    parsed, response>>

\* the state of the parse of one text
parseVars == <<parseInput, parseOutput>>

\* the state of the client's CameraGuide
clientVars ==
  <<platform, cameraReady, stage, isProcessing, showTips, errorMessage, photo, upload,
    reply, completed>>

\* the rest of the CameraGuide's state
captureVars == <<closure, form, orphans>>

\* the state of the HomeScreen
homeVars ==
  <<appState, roomImage, cards, reviewMode, finalCheckMessage, isSignedIn,
    authPromptVisible>>

\* the state of the CardDeck and the timers decks have set
deckVars ==
  <<currentIndex, showConfetti, showUpgrade, isComplete, isPremium, completedCards,
    swiped, timers>>

\* the state of the app
appVars == <<clientVars, captureVars, homeVars, deckVars>>

vars == <<serverVars, parseVars, appVars>>

Variants == {"worker", "node", "dual"}

\* the worker and the node server ask the model to repair an unparseable text
HasRepair(v) == v \in {"worker", "node"}

\* the worker and the dual-mode worker wrap their model calls in try/catch
HasTryCatch(v) == v \in {"worker", "dual"}

NoParse == [ok |-> FALSE, error |-> NoError]

\* the local state of a handler that has not started
Frame0 ==
  [pc |-> "idle", mode |-> "initial", image |-> "none", decoders |-> <<>>,
   attempt |-> 0, lastError |-> NoError, thrown |-> NoError, exception |-> NoError,
   errs |-> <<>>,
   calls |-> 0, fetches |-> 0, repairFetches |-> 0, inflight |-> 0, sent |-> <<>>,
   waits |-> <<>>, waitedMs |-> 0, raw |-> NullText, fixed |-> NullText,
   parsed |-> NoParse, response |-> NoResponse]

\* the handler's current local state
cur ==
  [pc |-> pc, mode |-> mode, image |-> image, decoders |-> decoders,
   attempt |-> attempt, lastError |-> lastError, thrown |-> thrown, exception |-> exception,
   errs |-> errs,
   calls |-> calls, fetches |-> fetches, repairFetches |-> repairFetches,
   inflight |-> inflight, sent |-> sent, waits |-> waits, waitedMs |-> waitedMs,
   raw |-> raw, fixed |-> fixed, parsed |-> parsed, response |-> response]

\* the handler's local state becomes f
Becomes(f) ==
  /\ pc' = f.pc
  /\ mode' = f.mode
  /\ image' = f.image
  /\ decoders' = f.decoders
  /\ attempt' = f.attempt
  /\ lastError' = f.lastError
  /\ thrown' = f.thrown
  /\ exception' = f.exception
  /\ errs' = f.errs
  /\ calls' = f.calls
  /\ fetches' = f.fetches
  /\ repairFetches' = f.repairFetches
  /\ inflight' = f.inflight
  /\ sent' = f.sent
  /\ waits' = f.waits
  /\ waitedMs' = f.waitedMs
  /\ raw' = f.raw
  /\ fixed' = f.fixed
  /\ parsed' = f.parsed
  /\ response' = f.response

(* ---------------------------------------------------------------------- *)
(* Model Gateway                                                          *)
(* ---------------------------------------------------------------------- *)

\* callOpenRouterWithRetry's default maxRetries
maxRetries == 2

RECURSIVE Pow2(_)
\* Math.pow(2, n)
Pow2(n) == IF n = 0 THEN 1 ELSE 2 * Pow2(n - 1)

\* a backoff that does not grow
backoffMsFlat(a) == 800

\* const backoffMs = 800 * Math.pow(2, attempt)
backoffMs(a) == 800 * Pow2(a)

\* a catch that keeps the first error
catchFirstError(previous, error) == IF previous = NoError THEN error ELSE previous

\* lastError = error
catchLastError(previous, error) == error

\* a loop that breaks one attempt late
retriesExhaustedLate(a) == a = maxRetries + 1

\* if (attempt === maxRetries) break
retriesExhausted(a) == a = maxRetries

\* the handler returns resp
respond(f, resp) == [f EXCEPT !.pc = "done", !.response = resp]

\* an error reaches the handler's level: its catch answers 500 with the
\* error's message; without a try/catch the framework answers
handlerThrows(f, e) ==
  LET g == [f EXCEPT !.exception = e] IN
    IF HasTryCatch(variant)
    THEN respond(g, JsonResponse(500, [error |-> e.message]))
    ELSE respond(g, UnhandledResponse)

\* a catch block that calls sleep without awaiting it: the next attempt starts
\* at once
catchAttemptNoAwait(f, e) ==
  LET g == [f EXCEPT !.lastError = e, !.errs = Append(@, e)]
  IN IF g.attempt = maxRetries
     THEN handlerThrows([g EXCEPT !.thrown = g.lastError], g.lastError)
     ELSE IF ~apiKey
     THEN [g EXCEPT !.pc = "sleeping", !.waits = Append(@, backoffMs(g.attempt))]
     ELSE [g EXCEPT !.pc = "awaitFetch", !.waits = Append(@, backoffMs(g.attempt)),
                    !.attempt = @ + 1, !.calls = @ + 1, !.fetches = @ + 1,
                    !.inflight = @ + 1, !.sent = Append(@, g.image)]

\* callOpenRouterWithRetry's catch block for the error e of the current
\* attempt, and its `throw lastError` after the loop
catchAttempt(f, e) ==
  LET g == [f EXCEPT !.lastError = catchLastError(f.lastError, e),
                     !.errs = Append(@, e)]
  IN IF retriesExhausted(g.attempt)
     THEN handlerThrows([g EXCEPT !.thrown = g.lastError], g.lastError)
     ELSE [g EXCEPT !.pc = "sleeping", !.waits = Append(@, backoffMs(g.attempt))]

\* one iteration of callOpenRouterWithRetry's loop up to its await: the call
\* of callOpenRouter, which throws without an API key and else sends the fetch
beginAttempt(f) ==
  LET g == [f EXCEPT !.calls = @ + 1] IN
    IF ~apiKey
    THEN catchAttempt(g, ApiKeyError(g.calls))
    ELSE [g EXCEPT !.pc = "awaitFetch", !.fetches = @ + 1, !.inflight = @ + 1,
                   !.sent = Append(@, g.image)]

\* callOpenRouterFixJson up to its await: one fetch, no retry loop
beginRepair(f) ==
  IF ~apiKey
  THEN handlerThrows(f, ApiKeyError(f.calls + 1))
  ELSE [f EXCEPT !.pc = "awaitRepair", !.repairFetches = @ + 1, !.inflight = @ + 1]

(* ---------------------------------------------------------------------- *)
(* The handler of POST /api/analysis/room-photo                           *)
(* ---------------------------------------------------------------------- *)

\* the status of the invalid_json_from_model response
invalidJsonStatus == 502

\* an unparseable model text answered as a client error
invalidJsonResponseClient(f) ==
  JsonResponse(422, [error |-> "invalid_json_from_model", raw |-> f.raw])

invalidJsonResponse(f) ==
  JsonResponse(invalidJsonStatus, [error |-> "invalid_json_from_model", raw |-> f.raw])

\* from a successful parse to the response: the normalized result, c.json
normalizeAndRespond(f) ==
  IF f.mode = "followup"
  THEN LET n == normalizeFollowup(f.parsed.value) IN
    IF n.threw THEN handlerThrows(f, n.error)
    ELSE respond(f, JsonResponse(200,
           [mode |-> "followup", completed |-> n.completed, remaining |-> n.remaining,
            newTasks |-> n.newTasks, feedback |-> n.feedback]))
  ELSE LET n == normalizeCards(f.parsed.value) IN
    IF n.threw THEN handlerThrows(f, n.error)
    ELSE IF variant = "dual"
    THEN respond(f, JsonResponse(200, [mode |-> "initial", cards |-> n.cards]))
    ELSE respond(f, JsonResponse(200, [cards |-> n.cards]))

\* the handler from `raw` on: parse, and on failure the repair call (worker,
\* node) or the 502 (dual)
gotRaw(f, text) ==
  LET g == [f EXCEPT !.raw = text, !.parsed = parseJsonWithRecovery(text)] IN
    IF g.parsed.ok THEN normalizeAndRespond(g)
    ELSE IF HasRepair(variant) THEN beginRepair(g)
    ELSE respond(g, invalidJsonResponse(g))

\* the handler from `fixed` on: parse again, then the result or the 502
gotFixed(f, text) ==
  LET g == [f EXCEPT !.fixed = text, !.parsed = parseJsonWithRecovery(text)] IN
    IF g.parsed.ok THEN normalizeAndRespond(g)
    ELSE respond(g, invalidJsonResponse(g))

\* a request: its content type, its form fields, and what the HEIC decoders
\* of the node server would do with its image
Requests ==
  [ctype : {"multipart", "json"},
   image : {"file", "string", "missing"},
   heic : BOOLEAN,
   sharpOk : BOOLEAN,
   convertOk : BOOLEAN,
   mode : {"absent", "initial", "followup", "bogus"},
   previousImage : BOOLEAN,
   previousCards : PreviousCardsTexts]

\* the node server's HEIC block: sharp, then heic-convert, then 415
convertHeic(f, r) ==
  IF ~r.heic THEN f
  ELSE IF r.sharpOk THEN [f EXCEPT !.image = "jpeg", !.decoders = <<"sharp">>]
  ELSE IF r.convertOk
  THEN [f EXCEPT !.image = "jpeg", !.decoders = <<"sharp", "heic-convert">>]
  ELSE respond([f EXCEPT !.decoders = <<"sharp", "heic-convert">>],
               JsonResponse(415, [error |-> "heic_convert_failed"]))

\* the dual-mode worker's try block up to its first await
dualModes(f, r) ==
  LET m == IF r.mode = "absent" THEN "initial" ELSE r.mode IN
    IF m = "initial" THEN beginAttempt([f EXCEPT !.mode = "initial"])
    ELSE IF m = "followup"
    THEN LET g == [f EXCEPT !.mode = "followup"]
             previous == parseJsonSafe(r.previousCards)
         IN IF ~r.previousImage \/ r.previousCards = NullText
            THEN respond(g, JsonResponse(400,
                   [error |-> "followup mode requires previousImage and previousCards"]))
            ELSE IF ~previous.ok
            THEN respond(g, JsonResponse(400, [error |-> "invalid previousCards JSON"]))
            ELSE IF previousCardsThrows(previous.value)
            THEN handlerThrows(g, Err("TypeError", "previousCards is not a card list", 0))
            ELSE beginAttempt(g)
    ELSE respond(f, JsonResponse(400, [error |-> "invalid mode"]))

\* the handler from the request to its first await or its early return
handleRequest(r) ==
  IF r.ctype # "multipart"
  THEN respond(Frame0, JsonResponse(415, [error |-> "content-type must be multipart/form-data"]))
  ELSE IF r.image # "file"
  THEN respond(Frame0, JsonResponse(400, [error |-> "image file is required"]))
  ELSE LET f == [Frame0 EXCEPT !.image = IF r.heic THEN "heic" ELSE "jpeg"] IN
    CASE variant = "node" ->
           LET g == convertHeic(f, r) IN
             IF g.pc = "done" THEN g ELSE beginAttempt(g)
      [] variant = "worker" -> beginAttempt(f)
      [] OTHER -> dualModes(f, r)

(* ---------------------------------------------------------------------- *)
(* States of the parts not in use                                         *)
(* ---------------------------------------------------------------------- *)

\* the handler's local state is f
FrameIs(f) ==
  /\ pc = f.pc
  /\ mode = f.mode
  /\ image = f.image
  /\ decoders = f.decoders
  /\ attempt = f.attempt
  /\ lastError = f.lastError
  /\ thrown = f.thrown
  /\ exception = f.exception
  /\ errs = f.errs
  /\ calls = f.calls
  /\ fetches = f.fetches
  /\ repairFetches = f.repairFetches
  /\ inflight = f.inflight
  /\ sent = f.sent
  /\ waits = f.waits
  /\ waitedMs = f.waitedMs
  /\ raw = f.raw
  /\ fixed = f.fixed
  /\ parsed = f.parsed
  /\ response = f.response

\* a deployed server with no request in progress
ServerInit ==
  /\ variant \in Variants
  /\ apiKey \in BOOLEAN
  /\ FrameIs(Frame0)

\* the server as the parse and client specifications leave it: not in use
ServerIdle ==
  /\ variant = "worker"
  /\ apiKey = TRUE
  /\ FrameIs(Frame0)

NoMessage == [from |-> "none"]
NoSize == [width |-> 0, height |-> 0]
\* no response of the upload in progress yet
NoReply == [status |-> 0]
NotCompleted == [called |-> FALSE, cards |-> <<>>]

\* a HomeScreen that is not mounted
HomeIdle ==
  /\ appState = "onboarding"
  /\ roomImage = "default"
  /\ cards = <<>>
  /\ reviewMode = FALSE
  /\ finalCheckMessage = FALSE
  /\ isSignedIn = FALSE
  /\ authPromptVisible = FALSE

\* a CardDeck as useState starts it, and no timer
DeckIdle ==
  /\ currentIndex = 0
  /\ showConfetti = FALSE
  /\ showUpgrade = FALSE
  /\ isComplete = FALSE
  /\ isPremium = FALSE
  /\ completedCards = 0
  /\ swiped = FALSE
  /\ timers = EmptyBag

\* a CameraGuide that is not mounted
ClientIdle ==
  /\ platform = "native"
  /\ cameraReady = FALSE
  /\ stage = "unmounted"
  /\ isProcessing = FALSE
  /\ showTips = TRUE
  /\ errorMessage = NoMessage
  /\ photo = NoSize
  /\ upload = NoSize
  /\ reply = NoReply
  /\ completed = NotCompleted
  /\ closure = FALSE
  /\ form = {}
  /\ orphans = <<>>
  /\ HomeIdle
  /\ DeckIdle

(* ---------------------------------------------------------------------- *)
(* parseJsonWithRecovery on prefix + body + suffix                        *)
(* ---------------------------------------------------------------------- *)

\* the longest prefix and suffix, in tokens
MaxAffixLen == 1

\* the longest body made of braces and prose, in tokens
MaxBraceLen == 2

RECURSIVE SeqsUpTo(_, _)
\* the sequences over tokens of length at most n
SeqsUpTo(tokens, n) ==
  IF n = 0 THEN {<<>>}
  ELSE LET shorter == SeqsUpTo(tokens, n - 1) IN
    shorter \cup {Append(q, tk) : q \in shorter, tk \in tokens}

\* what a prefix or suffix is made of: no token has a brace
AffixTokens == {"Sure", "[", "]", ",", "7", sNice}

Affixes == SeqsUpTo(AffixTokens, MaxAffixLen)

\* texts that are one valid JSON object
ObjectTexts ==
  {tOneCard, tTwoCardsExtra, tEmptyObject, tCardsNull, tCardNoInstruction,
   tFollowupPartial}

\* texts of braces and prose: no brace, one kind of brace, "}" before "{", ...
BraceTexts == SeqsUpTo({"{", "}", "Sure"}, MaxBraceLen)

ParseInputs == [prefix : Affixes, body : ObjectTexts \cup BraceTexts, suffix : Affixes]

NoInput == [prefix |-> <<>>, body |-> <<>>, suffix |-> <<>>]

\* the text T = prefix + body + suffix
TextOf(in) == in.prefix \o in.body \o in.suffix

ParseIdle ==
  /\ parseInput = NoInput
  /\ parseOutput = NoParse

InitParse ==
  /\ ServerIdle
  /\ ClientIdle
  /\ parseInput \in ParseInputs
  /\ parseOutput = NoParse

\* parseJsonWithRecovery(T)
RunParse ==
  /\ parseOutput = NoParse
  /\ parseOutput' = parseJsonWithRecovery(TextOf(parseInput))
  /\ UNCHANGED <<serverVars, parseInput, appVars>>

NextParse == RunParse

SpecParse == InitParse /\ [][NextParse]_vars

(* ---------------------------------------------------------------------- *)
(* The client's CameraGuide                                               *)
(* ---------------------------------------------------------------------- *)

(* ---------------------------------------------------------------------- *)
(* The client's CameraGuide                                               *)
(* ---------------------------------------------------------------------- *)

\* the longer edge above which the capture path resizes
LongEdgeLimit == 1280

\* widths and heights of source photos, in pixels
PhotoSides == {960, 1280, 1920, 2560}

Size(w, h) == [width |-> w, height |-> h]

\* Math.max(width, height)
longEdge(size) == IF size.width >= size.height THEN size.width ELSE size.height

\* the actions handed to manipulateAsync: one resize of the longer side, or none
resizeAction(size) ==
  IF longEdge(size) > LongEdgeLimit
  THEN IF size.width >= size.height THEN "width" ELSE "height"
  ELSE "none"

\* manipulateAsync: a resize that names one side scales the other with it
manipulated(size) ==
  CASE resizeAction(size) = "width" ->
         Size(LongEdgeLimit, (size.height * LongEdgeLimit) \div size.width)
    [] resizeAction(size) = "height" ->
         Size((size.width * LongEdgeLimit) \div size.height, LongEdgeLimit)
    [] OTHER -> size

\* convertToJpeg's canvas: the bitmap drawn at its own width and height
canvasOf(size) == Size(size.width, size.height)

\* the messages the component makes itself
ClientMessage(name) == [from |-> "client", text |-> name]
CameraNotReady == ClientMessage("camera is not initialized")
NotAnImage == ClientMessage("choose an image file")
HeicFailed == ClientMessage("HEIC conversion failed")
ImageLoadFailed == ClientMessage("image could not be loaded")
NoCardsGenerated == ClientMessage("no cards were generated")
\* error.message of an Error thrown by the platform (camera, manipulator, fetch)
PlatformMessage(name) == [from |-> "platform", text |-> name]
\* the response body as text, and the fallback with the status
BodyMessage(text) == [from |-> "body", body |-> text]
StatusMessage(status) == [from |-> "status", status |-> status]

\* what the server answers with 200 to an upload: the normalized cards of each
\* model text that parses and normalizes
CardsReplies ==
  {[status |-> 200, data |-> JObj(<< <<kCards, normalizeCards(parseJsonWithRecovery(t).value).cards>> >>)] :
     t \in {u \in ModelTexts :
              /\ parseJsonWithRecovery(u).ok
              /\ ~normalizeCards(parseJsonWithRecovery(u).value).threw}}

\* the bodies of the answers that are not 2xx, as text; a gateway in front of
\* the server may answer with no body at all
ErrorReplies ==
  {[status |-> 502, text |-> [error |-> "invalid_json_from_model", raw |-> tGarbled]],
   [status |-> 500, text |-> [error |-> "OPENROUTER_API_KEY is not set"]],
   [status |-> 500, text |-> [plain |-> "Internal Server Error"]],
   [status |-> 503, text |-> [empty |-> TRUE]]}

\* FREE_CARD_LIMIT
FREE_CARD_LIMIT == 3

\* the longest list of cards the server answers with
MaxCards == 4

\* answers with as many cards as the free limit, and more
LongReplies ==
  {[status |-> 200,
    data |-> JObj(<< <<kCards, JArr([i \in 1..n |-> JObj(<< <<kInstruction, JStr(sWipe)>> >>)])>> >>)] :
     n \in FREE_CARD_LIMIT..MaxCards}

Replies == CardsReplies \cup ErrorReplies \cup LongReplies

\* response.ok
IsOk(rep) == rep.status \in 200..299

\* (data.cards ?? []).filter(typeof card?.instruction === 'string').map(...)
usableCards(data) ==
  LET list == Coalesce(GetMember(data, kCards), JArr(<<>>))
      usable == SelectSeq(list.e, LAMBDA card : GetMember(card, kInstruction).t = "str")
  IN [i \in 1..Len(usable) |-> GetMember(usable[i], kInstruction)]

\* an uploadAndAnalyze that returns whatever cards are left
uploadOutcomeUnchecked(rep) ==
  IF ~IsOk(rep)
  THEN [threw |-> TRUE,
        message |-> IF rep.text = [empty |-> TRUE]
                    THEN StatusMessage(rep.status) ELSE BodyMessage(rep.text)]
  ELSE [threw |-> FALSE, cards |-> usableCards(rep.data)]

\* uploadAndAnalyze from the response on: the cards it returns or the Error it
\* throws
uploadOutcome(rep) ==
  IF ~IsOk(rep)
  THEN [threw |-> TRUE,
        message |-> IF rep.text = [empty |-> TRUE]
                    THEN StatusMessage(rep.status) ELSE BodyMessage(rep.text)]
  ELSE IF Len(usableCards(rep.data)) = 0
  THEN [threw |-> TRUE, message |-> NoCardsGenerated]
  ELSE [threw |-> FALSE, cards |-> usableCards(rep.data)]

\* the files the picker hands to onchange: none, or a file with what its
\* conversion will meet
WebFiles ==
  {[chosen |-> FALSE, isImage |-> FALSE, isHeic |-> FALSE, heicOk |-> FALSE,
    bitmapOk |-> FALSE, size |-> NoSize]}
  \cup [chosen : {TRUE}, isImage : BOOLEAN, isHeic : BOOLEAN, heicOk : BOOLEAN,
        bitmapOk : BOOLEAN, size : {Size(w, h) : w \in PhotoSides, h \in PhotoSides}]

\* the catch blocks: setErrorMessage(message); setIsProcessing(false)
Caught(message) ==
  /\ errorMessage' = message
  /\ isProcessing' = FALSE
  /\ stage' = "idle"

\* the most callbacks pending at once: the timers of card decks and the
\* captures that go on after their CameraGuide was unmounted
MaxPending == 2

Pending == BagCardinality(timers) + Len(orphans)

\* the fields uploadAndAnalyze appends to its FormData
formFields == {"image", "locale"}

\* the awaits of a capture or a pick; one left behind by its CameraGuide is
\* kept as a "capture" (a photo is being taken, processed or uploaded) or as
\* "picking"
InFlightStages == {"takingPicture", "manipulating", "uploading", "picking"}

\* the app as it starts: the onboarding is shown, no CameraGuide yet
InitClient ==
  /\ ServerIdle
  /\ ParseIdle
  /\ platform \in {"native", "web"}
  /\ cameraReady = FALSE
  /\ stage = "unmounted"
  /\ isProcessing = FALSE
  /\ showTips = TRUE
  /\ errorMessage = NoMessage
  /\ photo = NoSize
  /\ upload = NoSize
  /\ reply = NoReply
  /\ completed = NotCompleted
  /\ closure = FALSE
  /\ form = {}
  /\ orphans = <<>>
  /\ HomeIdle
  /\ DeckIdle

\* a CardDeck's useState values
FreshDeck ==
  /\ currentIndex' = 0
  /\ showConfetti' = FALSE
  /\ showUpgrade' = FALSE
  /\ isComplete' = FALSE
  /\ isPremium' = FALSE
  /\ completedCards' = 0
  /\ swiped' = FALSE

\* the timers of an unmounted deck that still do something: those that will
\* call onSessionComplete
StaleTimers(ts) ==
  LET kept == {t \in BagToSet(ts) : t.kind = "advance" /\ t.next >= t.length}
      n == BagCardinality([t \in kept |-> ts[t]])
  IN IF n = 0 THEN EmptyBag
     ELSE [t \in {[kind |-> "advance", next |-> 0, length |-> 0, live |-> FALSE,
                   fade |-> FALSE]} |-> n]

\* the CardDeck is rendered while appState is 'session': it is mounted when
\* the app enters the session and unmounted when the app leaves it
DeckFollows(ts) ==
  IF appState = "session" /\ appState' # "session"
  THEN FreshDeck /\ timers' = StaleTimers(ts)
  ELSE IF appState # "session" /\ appState' = "session"
  THEN FreshDeck /\ timers' = ts
  ELSE timers' = ts /\ UNCHANGED <<currentIndex, showConfetti, showUpgrade, isComplete,
                                    isPremium, completedCards, swiped>>

\* the CameraGuide is unmounted: what it had in progress goes on without it
UnmountCamera(os) ==
  /\ orphans' = IF stage \in InFlightStages
                THEN Append(os, [stage |-> IF stage = "picking" THEN "picking" ELSE "capture",
                                 closure |-> closure])
                ELSE os
  /\ BagCardinality(timers) + Len(orphans') <= MaxPending
  /\ cameraReady' = FALSE
  /\ stage' = "unmounted"
  /\ isProcessing' = FALSE
  /\ showTips' = TRUE
  /\ errorMessage' = NoMessage
  /\ photo' = NoSize
  /\ upload' = NoSize
  /\ reply' = NoReply
  /\ completed' = NotCompleted
  /\ closure' = FALSE
  /\ form' = {}
  /\ UNCHANGED platform

\* the CameraGuide is rendered while appState is 'camera'
CameraFollows(os) ==
  IF appState = "camera" /\ appState' # "camera"
  THEN UnmountCamera(os)
  ELSE orphans' = os /\ UNCHANGED <<clientVars, closure, form>>

\* handleAnalysisComplete of the render in which reviewMode was `review`
handleAnalysisComplete(review, cs) ==
  /\ roomImage' = "photo"
  /\ cards' = cs
  /\ reviewMode' = IF review THEN FALSE ELSE reviewMode
  /\ finalCheckMessage' = IF review /\ Len(cs) = 0 THEN TRUE ELSE finalCheckMessage
  /\ appState' = IF review /\ Len(cs) = 0 THEN "welcome" ELSE "session"
  /\ UNCHANGED <<isSignedIn, authPromptVisible>>

\* handleSessionComplete
handleSessionComplete ==
  /\ reviewMode' = TRUE
  /\ finalCheckMessage' = FALSE
  /\ appState' = "review"
  /\ UNCHANGED <<roomImage, cards, isSignedIn, authPromptVisible>>

\* handleBackToWelcome
handleBackToWelcome ==
  /\ cards' = <<>>
  /\ finalCheckMessage' = FALSE
  /\ reviewMode' = FALSE
  /\ appState' = "welcome"
  /\ UNCHANGED <<roomImage, isSignedIn, authPromptVisible>>

\* the onboarding ends
OnboardingComplete ==
  /\ appState = "onboarding"
  /\ appState' = "welcome"
  /\ UNCHANGED <<serverVars, parseVars, clientVars, captureVars, deckVars, roomImage,
                 cards, reviewMode, finalCheckMessage, isSignedIn, authPromptVisible>>

\* useGoogleAuth's signInSilently at startup restores a user
SilentSignIn ==
  /\ platform = "native"
  /\ appState = "onboarding"
  /\ ~isSignedIn
  /\ isSignedIn' = TRUE
  /\ UNCHANGED <<serverVars, parseVars, clientVars, captureVars, deckVars, appState,
                 roomImage, cards, reviewMode, finalCheckMessage, authPromptVisible>>

\* the account button of the welcome screen: handleRequireLogin
PressAccount ==
  /\ appState = "welcome"
  /\ ~authPromptVisible
  /\ authPromptVisible' = TRUE
  /\ UNCHANGED <<serverVars, parseVars, clientVars, captureVars, deckVars, appState,
                 roomImage, cards, reviewMode, finalCheckMessage, isSignedIn>>

\* the prompt's sign-in button: handleSignInPress, with signIn's outcome
PressSignIn(ok) ==
  /\ authPromptVisible
  /\ IF ok /\ platform = "native"
     THEN isSignedIn' = TRUE /\ authPromptVisible' = FALSE
     ELSE UNCHANGED <<isSignedIn, authPromptVisible>>
  /\ UNCHANGED <<serverVars, parseVars, clientVars, captureVars, deckVars, appState,
                 roomImage, cards, reviewMode, finalCheckMessage>>

\* the prompt is closed: handleAuthPromptClose
CloseAuthPrompt ==
  /\ authPromptVisible
  /\ authPromptVisible' = FALSE
  /\ UNCHANGED <<serverVars, parseVars, clientVars, captureVars, deckVars, appState,
                 roomImage, cards, reviewMode, finalCheckMessage, isSignedIn>>

\* startCamera(forReview), from the welcome screen or from the review prompt:
\* a new CameraGuide is shown
StartCamera(forReview) ==
  /\ appState = (IF forReview THEN "review" ELSE "welcome")
  /\ ~authPromptVisible
  /\ finalCheckMessage' = FALSE
  /\ reviewMode' = forReview
  /\ appState' = "camera"
  /\ cameraReady' = FALSE
  /\ stage' = "idle"
  /\ isProcessing' = FALSE
  /\ showTips' = TRUE
  /\ errorMessage' = NoMessage
  /\ photo' = NoSize
  /\ upload' = NoSize
  /\ reply' = NoReply
  /\ completed' = NotCompleted
  /\ closure' = FALSE
  /\ form' = {}
  /\ UNCHANGED <<serverVars, parseVars, platform, orphans, deckVars, roomImage, cards,
                 isSignedIn, authPromptVisible>>

\* the camera screen's back button (the web screen has none): onBack
CameraBack ==
  /\ appState = "camera"
  /\ platform = "native"
  /\ handleBackToWelcome
  /\ UnmountCamera(orphans)
  /\ UNCHANGED <<serverVars, parseVars, deckVars>>

\* the CameraView mounts and cameraRef.current is set
CameraMounts ==
  /\ platform = "native"
  /\ stage = "idle"
  /\ ~cameraReady
  /\ cameraReady' = TRUE
  /\ UNCHANGED <<serverVars, parseVars, platform, stage, isProcessing, showTips,
                 errorMessage, photo, upload, reply, completed, captureVars, homeVars,
                 deckVars>>

\* the tips are dismissed
DismissTips ==
  /\ platform = "native"
  /\ stage = "idle"
  /\ showTips
  /\ showTips' = FALSE
  /\ UNCHANGED <<serverVars, parseVars, platform, cameraReady, stage, isProcessing,
                 errorMessage, photo, upload, reply, completed, captureVars, homeVars,
                 deckVars>>

\* the capture button is pressed: handleCaptureAndAnalyze up to takePictureAsync
PressCapture ==
  /\ platform = "native"
  /\ stage = "idle"
  /\ ~isProcessing
  /\ IF ~cameraReady
     THEN Caught(CameraNotReady) /\ UNCHANGED showTips
     ELSE /\ isProcessing' = TRUE
          /\ showTips' = FALSE
          /\ errorMessage' = NoMessage
          /\ stage' = "takingPicture"
  /\ reply' = NoReply
  /\ closure' = reviewMode
  /\ UNCHANGED <<serverVars, parseVars, platform, cameraReady, photo, upload, completed,
                 form, orphans, homeVars, deckVars>>

\* takePictureAsync resolves with a photo of w x h
TakePictureResolves(w, h) ==
  /\ stage = "takingPicture"
  /\ photo' = Size(w, h)
  /\ stage' = "manipulating"
  /\ UNCHANGED <<serverVars, parseVars, platform, cameraReady, isProcessing, showTips,
                 errorMessage, upload, reply, completed, captureVars, homeVars, deckVars>>

\* takePictureAsync or manipulateAsync rejects
CaptureFails ==
  /\ stage \in {"takingPicture", "manipulating"}
  /\ Caught(PlatformMessage("capture failed"))
  /\ photo' = NoSize
  /\ UNCHANGED <<serverVars, parseVars, platform, cameraReady, showTips, upload, reply,
                 completed, captureVars, homeVars, deckVars>>

\* manipulateAsync resolves and uploadAndAnalyze sends the processed photo
ManipulateResolves ==
  /\ stage = "manipulating"
  /\ upload' = manipulated(photo)
  /\ form' = formFields
  /\ stage' = "uploading"
  /\ UNCHANGED <<serverVars, parseVars, platform, cameraReady, isProcessing, showTips,
                 errorMessage, photo, reply, completed, closure, orphans, homeVars,
                 deckVars>>

\* the web button is pressed: handleWebPick opens the picker
PressWebPick ==
  /\ platform = "web"
  /\ stage = "idle"
  /\ ~isProcessing
  /\ errorMessage' = NoMessage
  /\ showTips' = FALSE
  /\ isProcessing' = TRUE
  /\ stage' = "picking"
  /\ reply' = NoReply
  /\ closure' = reviewMode
  /\ UNCHANGED <<serverVars, parseVars, platform, cameraReady, photo, upload, completed,
                 form, orphans, homeVars, deckVars>>

\* input.onchange: no file, or convertToJpeg and then uploadAndAnalyze sends
\* the JPEG of the canvas
PickerChange(file) ==
  /\ stage = "picking"
  /\ IF ~file.chosen
     THEN /\ isProcessing' = FALSE
          /\ stage' = "idle"
          /\ UNCHANGED <<errorMessage, photo, upload, form>>
     ELSE IF ~file.isImage
     THEN Caught(NotAnImage) /\ UNCHANGED <<photo, upload, form>>
     ELSE IF file.isHeic /\ ~file.heicOk
     THEN Caught(HeicFailed) /\ UNCHANGED <<photo, upload, form>>
     ELSE IF ~file.bitmapOk
     THEN Caught(ImageLoadFailed) /\ UNCHANGED <<photo, upload, form>>
     ELSE /\ photo' = file.size
          /\ upload' = canvasOf(file.size)
          /\ form' = formFields
          /\ stage' = "uploading"
          /\ UNCHANGED <<isProcessing, errorMessage>>
  /\ UNCHANGED <<serverVars, parseVars, platform, cameraReady, showTips, reply, completed,
                 closure, orphans, homeVars, deckVars>>

\* the picker is closed without a file: the input has no cancel handler and
\* onchange does not run
PickerDismissed ==
  /\ stage = "picking"
  /\ stage' = "pickerClosed"
  /\ UNCHANGED <<serverVars, parseVars, platform, cameraReady, isProcessing, showTips,
                 errorMessage, photo, upload, reply, completed, captureVars, homeVars,
                 deckVars>>

\* the server's response arrives: the rest of uploadAndAnalyze, then
\* onAnalysisComplete or the catch block
UploadResponds(rep) ==
  /\ stage = "uploading"
  /\ reply' = rep
  /\ LET outcome == uploadOutcome(rep) IN
       IF outcome.threw
       THEN /\ Caught(outcome.message)
            /\ UNCHANGED <<completed, homeVars, deckVars>>
       ELSE /\ completed' = [called |-> TRUE, cards |-> outcome.cards]
            /\ stage' = "done"
            /\ handleAnalysisComplete(closure, outcome.cards)
            /\ DeckFollows(timers)
            /\ UNCHANGED <<isProcessing, errorMessage>>
  /\ photo' = NoSize
  /\ upload' = NoSize
  /\ UNCHANGED <<serverVars, parseVars, platform, cameraReady, showTips, captureVars>>

\* fetch rejects
UploadFails ==
  /\ stage = "uploading"
  /\ Caught(PlatformMessage("network request failed"))
  /\ photo' = NoSize
  /\ upload' = NoSize
  /\ UNCHANGED <<serverVars, parseVars, platform, cameraReady, showTips, reply, completed,
                 captureVars, homeVars, deckVars>>

\* os without its i-th element
Without(os, i) == [j \in 1..(Len(os) - 1) |-> IF j < i THEN os[j] ELSE os[j + 1]]

\* a file is chosen in a picker left open by a CameraGuide that is gone, and
\* is converted
OrphanAdvances(i) ==
  /\ i \in 1..Len(orphans)
  /\ orphans[i].stage = "picking"
  /\ orphans' = [orphans EXCEPT ![i].stage = "capture"]
  /\ UNCHANGED <<serverVars, parseVars, clientVars, closure, form, homeVars, deckVars>>

\* a capture without its CameraGuide ends in its catch block, whose setState
\* calls do nothing
OrphanFails(i) ==
  /\ i \in 1..Len(orphans)
  /\ orphans' = Without(orphans, i)
  /\ UNCHANGED <<serverVars, parseVars, clientVars, closure, form, homeVars, deckVars>>

\* the response to the upload of a capture without its CameraGuide arrives
OrphanResponds(i, rep) ==
  /\ i \in 1..Len(orphans)
  /\ orphans[i].stage = "capture"
  /\ ~uploadOutcome(rep).threw
  /\ handleAnalysisComplete(orphans[i].closure, uploadOutcome(rep).cards)
  /\ DeckFollows(timers)
  /\ CameraFollows(Without(orphans, i))
  /\ UNCHANGED <<serverVars, parseVars>>

\* a setTimeout callback of a deck: what it captured, whether its deck is
\* still mounted, and whether the sheet it was set from is still fading out
Timer(kind, next, length) ==
  [kind |-> kind, next |-> next, length |-> length, live |-> TRUE, fade |-> kind = "premium"]

\* the upgrade sheet is on screen: the deck renders it with the card stack
\* only, and it is shown, or still there after an upgrade until the native
\* Modal has faded out (animationType is "fade"), which is over when the first
\* 300 ms timer runs
SheetOnScreen ==
  /\ Len(cards) > 0
  /\ ~isComplete
  /\ \/ showUpgrade
     \/ \E t \in BagToSet(timers) : t.live /\ t.fade

\* the timers left once the sheet has faded out
Faded(ts) == BagOfAll(LAMBDA t : [t EXCEPT !.fade = FALSE], ts)

\* the deck's own screen takes the touches: no modal is over it
DeckTouchable ==
  /\ appState = "session"
  /\ ~authPromptVisible
  /\ ~SheetOnScreen

\* handleCardComplete's timer: the upgrade sheet at the free limit, or the
\* advance to nextIndex
afterSwipe(next) ==
  IF ~isPremium /\ Len(cards) > FREE_CARD_LIMIT /\ next = FREE_CARD_LIMIT
  THEN Timer("upgrade", 0, 0)
  ELSE Timer("advance", next, Len(cards))

\* the card on top is swiped away: handleCardComplete
SwipeCard ==
  /\ DeckTouchable
  /\ ~isComplete
  /\ currentIndex < Len(cards)
  /\ ~swiped
  /\ Pending < MaxPending
  /\ swiped' = TRUE
  /\ showConfetti' = TRUE
  /\ completedCards' = completedCards + 1
  /\ timers' = timers (+) SetToBag({afterSwipe(currentIndex + 1)})
  /\ UNCHANGED <<serverVars, parseVars, clientVars, captureVars, homeVars, currentIndex,
                 showUpgrade, isComplete, isPremium>>

\* the confetti's onComplete: handleConfettiComplete
ConfettiEnds ==
  /\ appState = "session"
  /\ showConfetti
  /\ showConfetti' = FALSE
  /\ UNCHANGED <<serverVars, parseVars, clientVars, captureVars, homeVars, currentIndex,
                 showUpgrade, isComplete, isPremium, completedCards, swiped, timers>>

\* a timer runs
TimerFires(t) ==
  /\ t \in BagToSet(timers)
  /\ LET rest == timers (-) SetToBag({t})
     IN CASE t.kind = "upgrade" ->
               /\ showUpgrade' = TRUE
               /\ timers' = rest
               /\ UNCHANGED <<clientVars, captureVars, homeVars, currentIndex, showConfetti,
                              isComplete, isPremium, completedCards, swiped>>
          [] t.kind = "premium" ->
               /\ currentIndex' = currentIndex + 1
               /\ swiped' = FALSE
               /\ timers' = Faded(rest)
               /\ UNCHANGED <<clientVars, captureVars, homeVars, showConfetti, showUpgrade,
                              isComplete, isPremium, completedCards>>
          [] t.kind = "advance" /\ t.next < t.length ->
               /\ currentIndex' = t.next
               /\ swiped' = (t.next = currentIndex /\ swiped)
               /\ timers' = rest
               /\ UNCHANGED <<clientVars, captureVars, homeVars, showConfetti, showUpgrade,
                              isComplete, isPremium, completedCards>>
          [] OTHER ->
               /\ handleSessionComplete
               /\ DeckFollows(rest)
               /\ CameraFollows(orphans)
  /\ UNCHANGED <<serverVars, parseVars>>

\* handleUpgrade
handleUpgrade ==
  IF ~isSignedIn
  THEN /\ authPromptVisible' = TRUE
       /\ UNCHANGED <<isSignedIn, isPremium, showUpgrade, timers>>
  ELSE /\ Pending < MaxPending
       /\ isPremium' = TRUE
       /\ showUpgrade' = FALSE
       /\ timers' = timers (+) SetToBag({Timer("premium", 0, 0)})
       /\ UNCHANGED <<authPromptVisible, isSignedIn>>

\* the sheet's upgrade button is tapped
TapUpgrade ==
  /\ appState = "session"
  /\ SheetOnScreen
  /\ ~authPromptVisible
  /\ handleUpgrade
  /\ UNCHANGED <<serverVars, parseVars, clientVars, captureVars, appState, roomImage,
                 cards, reviewMode, finalCheckMessage, currentIndex, showConfetti,
                 isComplete, completedCards, swiped>>

\* the sheet is closed: handleUpgradeClose; the completion screen replaces the
\* card stack and the sheet with it
CloseUpgrade ==
  /\ appState = "session"
  /\ SheetOnScreen
  /\ ~authPromptVisible
  /\ showUpgrade' = FALSE
  /\ isComplete' = TRUE
  /\ timers' = Faded(timers)
  /\ UNCHANGED <<serverVars, parseVars, clientVars, captureVars, homeVars, currentIndex,
                 showConfetti, isPremium, completedCards, swiped>>

\* the completion screen's restart button: handleRestart
Restart ==
  /\ DeckTouchable
  /\ Len(cards) > 0
  /\ isComplete
  /\ currentIndex' = 0
  /\ isComplete' = FALSE
  /\ isPremium' = FALSE
  /\ completedCards' = 0
  /\ swiped' = FALSE
  /\ UNCHANGED <<serverVars, parseVars, clientVars, captureVars, homeVars, showConfetti,
                 showUpgrade, timers>>

\* the session's back button, or the deck's own: handleBackToWelcome
SessionBack ==
  /\ DeckTouchable
  /\ handleBackToWelcome
  /\ DeckFollows(timers)
  /\ UNCHANGED <<serverVars, parseVars, clientVars, captureVars>>

NextClient ==
  \/ OnboardingComplete
  \/ SilentSignIn
  \/ PressAccount
  \/ \E ok \in BOOLEAN : PressSignIn(ok)
  \/ CloseAuthPrompt
  \/ \E forReview \in BOOLEAN : StartCamera(forReview)
  \/ CameraBack
  \/ CameraMounts
  \/ DismissTips
  \/ PressCapture
  \/ \E w \in PhotoSides, h \in PhotoSides : TakePictureResolves(w, h)
  \/ CaptureFails
  \/ ManipulateResolves
  \/ PressWebPick
  \/ \E file \in WebFiles : PickerChange(file)
  \/ PickerDismissed
  \/ \E rep \in Replies : UploadResponds(rep)
  \/ UploadFails
  \/ \E i \in 1..MaxPending : OrphanAdvances(i)
  \/ \E i \in 1..MaxPending : OrphanFails(i)
  \/ \E i \in 1..MaxPending, rep \in Replies : OrphanResponds(i, rep)
  \/ SwipeCard
  \/ ConfettiEnds
  \/ \E t \in BagToSet(timers) : TimerFires(t)
  \/ TapUpgrade
  \/ CloseUpgrade
  \/ Restart
  \/ SessionBack

SpecClient == InitClient /\ [][NextClient]_vars

(* ---------------------------------------------------------------------- *)
(* Actions                                                                *)
(* ---------------------------------------------------------------------- *)

Init == ServerInit /\ ParseIdle /\ ClientIdle

\* a request arrives and the handler runs to its first await or return
ReceiveRequest(r) ==
  /\ pc = "idle"
  /\ Becomes(handleRequest(r))
  /\ UNCHANGED <<variant, apiKey, parseVars, appVars>>

\* the provider answers the generation fetch with content
FetchOk(text) ==
  /\ pc = "awaitFetch"
  /\ Becomes(gotRaw([cur EXCEPT !.inflight = @ - 1], text))
  /\ UNCHANGED <<variant, apiKey, parseVars, appVars>>

\* the generation fetch fails: non-2xx, no content, or a rejected fetch
FetchFails(kind) ==
  /\ pc = "awaitFetch"
  /\ Becomes(catchAttempt([cur EXCEPT !.inflight = @ - 1], UpstreamError(kind, calls)))
  /\ UNCHANGED <<variant, apiKey, parseVars, appVars>>

\* sleep(backoffMs) resolves: attempt += 1 and the loop runs again
SleepElapses ==
  /\ pc = "sleeping"
  /\ Becomes(beginAttempt([cur EXCEPT !.attempt = @ + 1,
                                      !.waitedMs = @ + waits[Len(waits)]]))
  /\ UNCHANGED <<variant, apiKey, parseVars, appVars>>

\* the provider answers the repair fetch with content
RepairOk(text) ==
  /\ pc = "awaitRepair"
  /\ Becomes(gotFixed([cur EXCEPT !.inflight = @ - 1], text))
  /\ UNCHANGED <<variant, apiKey, parseVars, appVars>>

\* the repair fetch fails: callOpenRouterFixJson throws to the handler
RepairFails(kind) ==
  /\ pc = "awaitRepair"
  /\ Becomes(handlerThrows([cur EXCEPT !.inflight = @ - 1], UpstreamError(kind, calls + 1)))
  /\ UNCHANGED <<variant, apiKey, parseVars, appVars>>

\* the response is sent and the request's state is discarded
ResponseSent ==
  /\ pc = "done"
  /\ Becomes(Frame0)
  /\ UNCHANGED <<variant, apiKey, parseVars, appVars>>

Next ==
  \/ \E r \in Requests : ReceiveRequest(r)
  \/ \E text \in ModelTexts : FetchOk(text)
  \/ \E kind \in UpstreamFailures : FetchFails(kind)
  \/ SleepElapses
  \/ \E text \in ModelTexts : RepairOk(text)
  \/ \E kind \in UpstreamFailures : RepairFails(kind)
  \/ ResponseSent

Spec == Init /\ [][Next]_vars

\* what the runtime guarantees: a timer that was set fires, a response that
\* was returned is sent.  Nothing makes the provider answer a fetch.
FairSpec == Spec /\ WF_vars(SleepElapses) /\ WF_vars(ResponseSent)

(* ---------------------------------------------------------------------- *)
(* Properties                                                             *)
(* ---------------------------------------------------------------------- *)

\* direct parse, then parse of the extracted object, written out stage by stage
DirectOk(text) == parseJsonSafe(text).ok
ExtractOk(text) ==
  extractJsonObject(text) # NullText /\ parseJsonSafe(extractJsonObject(text)).ok
\* parsed is what the two stages give for text: a success exactly when one of
\* them succeeds, with the direct parse's value first
IsStagedParse(p, text) ==
  /\ p.ok = (DirectOk(text) \/ ExtractOk(text))
  /\ p.ok => p.value = (IF DirectOk(text) THEN parseJsonSafe(text).value
                         ELSE parseJsonSafe(extractJsonObject(text)).value)

\* C1: a request makes at most 3 model attempts (1 initial + 2 retries); the
\* first successful attempt is the last one: its text is raw, and no attempt,
\* wait or generation fetch follows it.
C1_AtMostThreeAttempts ==
  /\ calls <= 3
  /\ fetches <= 3
  /\ attempt <= 2
  /\ raw # NullText =>
       /\ calls = Len(errs) + 1
       /\ fetches = calls
       /\ pc \notin {"awaitFetch", "sleeping"}

\* the third attempt succeeded and the request was answered from its text
C1_Witness ==
  /\ calls = 3
  /\ Len(errs) = 2
  /\ raw = tOneCard
  /\ response.status = 200

\* C2: the wait after failed attempt k (k = 0, 1) is 800 * 2^k ms; a wait
\* stands only between a failed attempt and the next attempt, never before the
\* first attempt or after the last; failing twice and succeeding on attempt 3
\* returns the result after at least 2400 ms of waiting.
C2_BackoffSchedule ==
  /\ Len(waits) <= 2
  /\ \A k \in 1..Len(waits) : waits[k] = 800 * (2 ^ (k - 1))
  /\ Len(waits) <= Len(errs)
  /\ IF pc = "sleeping"
     THEN Len(waits) = calls /\ Len(errs) = calls
     ELSE Len(waits) = (IF calls = 0 THEN 0 ELSE calls - 1)
  /\ (Len(errs) = 2 /\ raw # NullText) =>
       /\ waitedMs >= 2400
       /\ response # NoResponse => response.status \in {200, 500, 502}
       /\ (parsed.ok /\ pc = "done" /\ fixed = NullText) => IsStagedParse(parsed, raw)

\* two failures, two waits of 800 and 1600 ms, then the successful result
C2_Witness ==
  /\ Len(errs) = 2
  /\ waits = <<800, 1600>>
  /\ waitedMs = 2400
  /\ raw = tOneCard
  /\ response.status = 200

\* C3: when all 3 attempts fail, the error thrown to the caller is the third
\* attempt's error itself, not an earlier attempt's and not a wrapped one.
C3_LastErrorPropagates ==
  Len(errs) = 3 =>
    /\ thrown = errs[3]
    /\ thrown # errs[1]
    /\ thrown # errs[2]
    /\ HasTryCatch(variant) => response = JsonResponse(500, [error |-> errs[3].message])

\* three failed attempts with different errors, the last one reported
C3_Witness ==
  /\ Len(errs) = 3
  /\ errs[1].message = "OpenRouter error 429"
  /\ errs[2].message = "OpenRouter error 503"
  /\ errs[3].message = "OpenRouter response missing content"
  /\ pc = "done"

\* C4: without OPENROUTER_API_KEY the gateway makes exactly one attempt, does
\* not wait, and the request fails at once with a 500-class response.
C4_MissingKeyNotRetried ==
  (~apiKey /\ calls > 0) =>
    /\ calls = 1
    /\ waits = <<>>
    /\ pc = "done"
    /\ response.status >= 500

\* C5: a request answered with a 4xx status caused no model call, no fetch
\* and no retry wait.
C5_ClientErrorsNeverReachModel ==
  (response.status >= 400 /\ response.status <= 499) =>
    /\ calls = 0
    /\ fetches = 0
    /\ repairFetches = 0
    /\ waits = <<>>
    /\ raw = NullText

\* the last validation of the dual-mode server rejected the request
C5_Witness ==
  /\ variant = "dual"
  /\ mode = "followup"
  /\ response = JsonResponse(400, [error |-> "invalid previousCards JSON"])

\* C6: the repair call is issued at most once per request, only after direct
\* parse and extraction both failed on the first raw text; direct parse then
\* extraction are run again on the repaired text; a raw text that parses
\* causes no repair call.
C6_RepairOnceAfterBothStages ==
  /\ repairFetches <= 1
  /\ repairFetches = 1 =>
       /\ raw # NullText
       /\ ~DirectOk(raw)
       /\ ~ExtractOk(raw)
       /\ pc \in {"awaitRepair", "done"}
  /\ (raw # NullText /\ (DirectOk(raw) \/ ExtractOk(raw))) => repairFetches = 0
  /\ fixed # NullText => repairFetches = 1 /\ IsStagedParse(parsed, fixed)

\* a repaired text that only the extraction stage can parse gave the result
C6_Witness ==
  /\ repairFetches = 1
  /\ raw = tGarbled
  /\ fixed = tFenced
  /\ response.status = 200

\* C7: in every variant and mode a 502 invalid_json_from_model comes only
\* after both parse stages failed on the model's text, one repair call was
\* made and the repaired text failed both stages too; its raw field is the
\* original text.
C7_502OnlyAfterRepair ==
  response.status = 502 =>
    /\ ~DirectOk(raw) /\ ~ExtractOk(raw)
    /\ repairFetches = 1
    /\ fixed # NullText
    /\ ~DirectOk(fixed) /\ ~ExtractOk(fixed)
    /\ response.body.raw = raw

\* C8: the repair call is retried like every gateway call: a request does not
\* end on the failure of its first and only repair fetch.
C8_RepairCallRetried ==
  (pc = "done" /\ repairFetches >= 1 /\ fixed = NullText) => repairFetches = 3

\* C9: every accepted request is eventually answered, even when the provider
\* never answers a fetch.
C9_AcceptedRequestAnswered ==
  (pc \in {"awaitFetch", "sleeping", "awaitRepair"}) ~> (pc = "done")

\* C10: for a parsed object (or array), each absent array field of the result is an
\* empty array and an absent feedback an empty string; no field is null and
\* normalization does not throw.
C10_NormalizationTotal ==
  (pc = "done" /\ parsed.ok /\ parsed.value.t \in {"obj", "arr"}) =>
    IF mode = "followup"
    THEN /\ response.status = 200
         /\ ~HasMember(parsed.value, kCompleted) => response.body.completed = JArr(<<>>)
         /\ ~HasMember(parsed.value, kRemaining) => response.body.remaining = JArr(<<>>)
         /\ ~HasMember(parsed.value, kNewTasks) => response.body.newTasks = JArr(<<>>)
         /\ ~HasMember(parsed.value, kFeedback) => response.body.feedback = JStr(sEmpty)
         /\ \A v \in {response.body.completed, response.body.remaining,
                      response.body.newTasks, response.body.feedback} :
              ~IsNullish(v)
    ELSE ~HasMember(parsed.value, kCards) =>
           /\ response.status = 200
           /\ response.body.cards = JArr(<<>>)

\* a followup object with only `completed`, and an initial object without cards
C10_Witness ==
  /\ pc = "done"
  /\ mode = "followup"
  /\ raw = tFollowupPartial
  /\ response.status = 200
  /\ response.body.remaining = JArr(<<>>)

\* a CleaningCard: an object whose instruction is a non-empty string
IsCleaningCard(v) ==
  /\ v.t = "obj"
  /\ GetMember(v, kInstruction).t = "str"
  /\ GetMember(v, kInstruction).s # sEmpty

\* the card lists of a 200 response
ResponseCardLists ==
  IF mode = "followup"
  THEN {response.body.completed, response.body.remaining, response.body.newTasks}
  ELSE {response.body.cards}

\* C11: every CleaningCard of a 200 response has a non-empty string
\* instruction, whatever JSON the model returned.
C11_CardsHaveInstruction ==
  response.status = 200 =>
    \A list \in ResponseCardLists :
      list.t = "arr" => \A i \in 1..Len(list.e) : IsCleaningCard(list.e[i])

\* C12: a 200 followup response has the keys completed, remaining, newTasks
\* and feedback; the first three are arrays and feedback is a string.
C12_FollowupShape ==
  (response.status = 200 /\ mode = "followup") =>
    /\ {"completed", "remaining", "newTasks", "feedback"} \subseteq DOMAIN response.body
    /\ response.body.completed.t = "arr"
    /\ response.body.remaining.t = "arr"
    /\ response.body.newTasks.t = "arr"
    /\ response.body.feedback.t = "str"

\* C13: only the documented fields reach a 200 response: every returned card
\* holds instruction and nothing else, in initial and in followup mode.
C13_OnlyDocumentedFields ==
  response.status = 200 =>
    /\ DOMAIN response.body \subseteq
         {"mode", "cards", "completed", "remaining", "newTasks", "feedback"}
    /\ \A list \in ResponseCardLists :
         list.t = "arr" =>
           \A i \in 1..Len(list.e) :
             /\ list.e[i].t = "obj"
             /\ \A j \in 1..Len(list.e[i].m) : list.e[i].m[j][1] = kInstruction

\* C14: an exception raised while handling an accepted request is answered
\* with 500 { error: message }, in every variant.
C14_ExceptionGives500Json ==
  exception # NoError => response = JsonResponse(500, [error |-> exception.message])

RECURSIVE SumSeq(_)
SumSeq(q) == IF q = <<>> THEN 0 ELSE q[1] + SumSeq(Tail(q))

\* C17: the model calls of a request are sequential: at most one fetch is in
\* flight; an attempt is in flight only after every earlier attempt failed
\* and its wait elapsed; the repair fetch starts only after the generation
\* call returned its text.
C17_CallsSequential ==
  /\ inflight \in {0, 1}
  /\ inflight = 1 <=> pc \in {"awaitFetch", "awaitRepair"}
  /\ pc = "awaitFetch" =>
       /\ Len(errs) = calls - 1
       /\ Len(waits) = calls - 1
       /\ waitedMs = SumSeq(waits)
       /\ repairFetches = 0
       /\ raw = NullText
  /\ repairFetches >= 1 =>
       /\ raw # NullText
       /\ fetches = Len(errs) + 1
       /\ waitedMs = SumSeq(waits)

\* the repair fetch is in flight after two failed attempts and a successful one
C17_Witness ==
  /\ pc = "awaitRepair"
  /\ inflight = 1
  /\ calls = 3
  /\ waitedMs = 2400

\* C18: a HEIC source whose first conversion fails gets the second decoder
\* once; the 415 comes only after both failed; HEIC bytes that were not
\* converted are never sent to the model.
C18_HeicNeverForwarded ==
  /\ \A i \in 1..Len(sent) : sent[i] # "heic"
  /\ decoders \in {<<>>, <<"sharp">>, <<"sharp", "heic-convert">>}
  /\ response = JsonResponse(415, [error |-> "heic_convert_failed"]) =>
       decoders = <<"sharp", "heic-convert">>

\* the text of the parse is prefix + object + suffix, and it was parsed
ParsedObjectText ==
  /\ parseOutput # NoParse
  /\ parseInput.body \in ObjectTexts

\* C15 as stated: for T = prefix + object + suffix with brace-free prefix and
\* suffix, parseJsonWithRecovery succeeds with exactly the object's value.
C15_ExtractRecoversObject ==
  ParsedObjectText =>
    /\ parseOutput.ok
    /\ parseOutput.value = parseJsonSafe(parseInput.body).value

\* C15 amended: the same when T as a whole is not valid JSON; when T as a
\* whole is valid JSON the result is T's own value.
C15_ExtractRecoversObjectUnlessDirect ==
  ParsedObjectText =>
    /\ parseOutput.ok
    /\ parseOutput.value =
         (IF DirectOk(TextOf(parseInput))
          THEN parseJsonSafe(TextOf(parseInput)).value
          ELSE parseJsonSafe(parseInput.body).value)

\* an object with nested objects between prose was recovered
C15_Witness ==
  /\ parseInput = [prefix |-> <<"Sure">>, body |-> tTwoCardsExtra, suffix |-> <<"Sure">>]
  /\ parseOutput.ok
  /\ parseOutput.value = parseJsonSafe(tTwoCardsExtra).value
  /\ ~DirectOk(TextOf(parseInput))

\* the text has no "{", or no "}", or its last "}" is before its first "{"
NothingToExtract(text) ==
  \/ \A i \in 1..Len(text) : text[i] # "{"
  \/ \A i \in 1..Len(text) : text[i] # "}"
  \/ \A i, j \in 1..Len(text) : (text[i] = "{" /\ text[j] = "}") => j < i

\* C16: for a text with nothing to extract whose direct parse fails, the
\* result is that first failure itself, with the same error.
C16_NoExtractionKeepsFailure ==
  (parseOutput # NoParse /\ NothingToExtract(TextOf(parseInput))
     /\ ~DirectOk(TextOf(parseInput))) =>
    parseOutput = [ok |-> FALSE, error |-> SyntaxErrorOf(TextOf(parseInput))]

\* "}" before "{" after prose: the direct parse's failure came back
C16_Witness ==
  /\ parseInput = [prefix |-> <<"Sure">>, body |-> <<"}", "{">>, suffix |-> <<>>]
  /\ parseOutput = [ok |-> FALSE, error |-> SyntaxErrorOf(<<"Sure", "}", "{">>)]

\* the longer edge of `size` is at most LongEdgeLimit and its sides are in
\* the proportion of `source` (to the pixel the integer sides allow)
DownscaledFrom(size, source) ==
  /\ longEdge(size) <= LongEdgeLimit
  /\ size.width * source.height - size.height * source.width \in
       (0 - longEdge(source))..longEdge(source)

\* C19: on both paths the uploaded photo is the source downscaled to a longer
\* edge of at most 1280 when the source's longer edge is above 1280, and the
\* source's own size otherwise.
C19_UploadWithinLongEdge ==
  stage \in {"uploading", "done"} =>
    IF longEdge(photo) > LongEdgeLimit
    THEN DownscaledFrom(upload, photo)
    ELSE upload = photo

\* a 2xx response arrived whose cards are none, or none with a string instruction
ZeroUsableCards ==
  /\ reply # NoReply
  /\ IsOk(reply)
  /\ Len(usableCards(reply.data)) = 0

C24_ParsedTextNever500 ==
  parsed.ok => (response.status \in {200, 502} /\ exception = NoError)

\* an array whose elements are objects with a string instruction
IsCardList(value) ==
  /\ value.t = "arr"
  /\ \A i \in 1..Len(value.e) :
       value.e[i].t = "obj" /\ GetMember(value.e[i], kInstruction).t = "str"

\* the followup fields of r arrived and previousCards is valid JSON that is
\* not a card list
BadPreviousCards(r) ==
  /\ r.previousImage
  /\ r.previousCards # NullText
  /\ parseJsonSafe(r.previousCards).ok
  /\ ~IsCardList(parseJsonSafe(r.previousCards).value)

\* C25: a followup request whose previousCards is valid JSON but not an array
\* of {instruction} objects is answered at once with a 4xx status.
C25_BadPreviousCardsRejected ==
  [][\A r \in Requests :
       (ReceiveRequest(r) /\ mode' = "followup" /\ BadPreviousCards(r))
         => response'.status \in 400..499]_vars

\* C21: an upload made in review mode carries mode, previousImage and
\* previousCards besides image and locale.
C21_FollowupFields ==
  (stage = "uploading" /\ closure) =>
    {"image", "locale", "mode", "previousImage", "previousCards"} \subseteq form

\* the photos being taken, processed or uploaded: that of the CameraGuide on
\* screen and those of the CameraGuides that are gone
PhotosInFlight ==
  (IF stage \in {"takingPicture", "manipulating", "uploading"} THEN 1 ELSE 0)
    + Cardinality({i \in 1..Len(orphans) : orphans[i].stage = "capture"})

\* C22: at most one photo is being captured or uploaded at any time.
C22_OnePhotoInFlight == PhotosInFlight <= 1

\* C23: the message shown is never the text of a response body.
C23_NoRawBodyShown == errorMessage.from # "body"

\* C26: once the app is back on the welcome screen, nothing moves it to the
\* review prompt: no timer of a deck that was left calls onSessionComplete.
C26_BackStaysWelcome ==
  [][appState = "welcome" => appState' # "review"]_vars

\* C27: a review-mode upload answered with zero usable cards brings the app
\* back to the welcome screen, reviewMode cleared and the final-check message
\* set.
C27_ReviewZeroCardsIsFinalCheck ==
  (ZeroUsableCards /\ closure) =>
    (appState = "welcome" /\ ~reviewMode /\ finalCheckMessage)

\* C28: a deck that is past the free cards is premium.
C28_FreeLimit == currentIndex >= FREE_CARD_LIMIT => isPremium

\* C29: when the deck renders the card stack, currentIndex is the index of
\* one of its cards.
C29_IndexInDeck ==
  (appState = "session" /\ Len(cards) > 0 /\ ~isComplete) =>
    (0 <= currentIndex /\ currentIndex < Len(cards))

\* what the platform does on its own once a capture or a pick has begun: the
\* camera, the manipulator and the picker each end, one way or the other, and
\* no fetch is awaited for ever (UploadFails is enabled exactly while one is,
\* and UploadResponds ends the wait as well)
CaptureProgress ==
  \/ \E w \in PhotoSides, h \in PhotoSides : TakePictureResolves(w, h)
  \/ CaptureFails
  \/ ManipulateResolves
  \/ \E file \in WebFiles : PickerChange(file)
  \/ PickerDismissed
  \/ UploadFails

\* the client with every begun capture or pick carried on, and every timer run
FairSpecClient ==
  /\ SpecClient
  /\ WF_vars(CaptureProgress)
  /\ WF_vars(\E t \in BagToSet(timers) : TimerFires(t))

\* C30: an attempt that set isProcessing and does not end in
\* onAnalysisComplete sets it back to false.
C30_ProcessingIsReset ==
  isProcessing ~> (~isProcessing \/ completed.called)

====
